---- MODULE Spec2Model ----
(***************************************************************************)
(* Sentry app webhook tasks (src/sentry/sentry_apps/tasks/sentry_apps.py): *)
(* the resource-change router, the delivery gate, alert-trigger delivery   *)
(* and region cache invalidation, as state machines over the datastore     *)
(* rows the tasks read and the effects they leave (scheduled tasks,        *)
(* outbound requests, log records, analytics records, clear_key calls).    *)
(***************************************************************************)
EXTENDS Naturals, Sequences, FiniteSets, TLC

VARIABLES
    installations,  \* SentryAppInstallation rows: id -> row or None
    groups,         \* ids of the committed Group rows
    activities,     \* ids of the committed Activity rows
    servicehooks,   \* ServiceHook rows: actor (installation) id -> row or None
    org_mapping,    \* OrganizationMapping rows: [organization_id, region_name]
    task,           \* the celery task in flight (with its retry count), or None
    scheduled,      \* send_resource_change_webhook.delay() calls of the current change
    sent,           \* envelopes handed to send_and_save_webhook_request
    analytics,      \* analytics.record() / metrics.incr() calls of the last execution
    cleared,        \* region_caching_service.clear_key() calls of the last execution
    notified,       \* InstallationNotifier.run() calls of the current task
    evaluation,     \* the last evaluate_value call of a condition handler, or None
    result          \* how the last execution ended, with its log records

vars == <<installations, groups, activities, servicehooks, org_mapping,
          task, scheduled, sent, analytics, cleared, notified, evaluation,
          result>>

datastore == <<installations, groups, activities, servicehooks, org_mapping>>

(***************************************************************************)
(* Bounds of the model and constants of the program.                       *)
(***************************************************************************)
MaxInstalls == 2
MaxResults == 3
MaxCount == 2
max_retries == 3

None == [none |-> TRUE]

InstallIds == 1 .. MaxInstalls
InstanceIds == {1}
Organizations == {1, 2}
Projects == {1, 2}
Apps == {1, 2}
Statuses == {"pending", "installed"}
Senders == {"Group", "Error", "Comment"}
Actions == {"created", "updated", "deleted"}

(***************************************************************************)
(* Module constants of sentry_apps.py and the registries it imports.       *)
(***************************************************************************)
RESOURCE_RENAMES == [Group |-> "issue"]

\* The type table with Comment resolved as a Group.
TYPES_CommentAsGroup == [Group |-> "Group", Error |-> "Event", Comment |-> "Group"]

TYPES == [Group |-> "Group", Error |-> "Event", Comment |-> "Activity"]

VALID_EVENTS ==
    {"issue.assigned", "issue.created", "issue.ignored", "issue.resolved",
     "error.created", "comment.created", "comment.deleted", "comment.updated"}

\* SentryApp rows: the apps that exist and the events each subscribes to.
SentryAppEvents(app) ==
    IF app = 1 THEN {"issue.created", "error.created"}
    ELSE {"error.created", "comment.updated"}

\* str.lower() on the class names and senders the tasks handle.
Lower(s) ==
    CASE s = "Group" -> "group"
      [] s = "Error" -> "error"
      [] s = "Comment" -> "comment"
      [] s = "Event" -> "event"
      [] s = "Activity" -> "activity"
      [] OTHER -> s

\* Project.objects.get_from_cache(id=p).organization_id: project 1 belongs to
\* organization 1; project 2 names organization 3, which has no Organization row.
ProjectOrganizationId(p) == IF p = 1 THEN 1 ELSE 3

\* get_from_cache finding a row for every id.
OrganizationAlwaysExists(org) == TRUE

\* Organization.objects.get_from_cache(id=org) finds a row.
OrganizationExists(org) == org \in Organizations

\* Group and Activity rows live in project 1.
GroupProjectId(g) == 1

(***************************************************************************)
(* Instances.  A model instance carries its class and the attributes the   *)
(* tasks read; group_id 0 is an event without a group.                     *)
(***************************************************************************)
GroupInstance(g) ==
    [cls |-> "Group", id |-> g, project_id |-> GroupProjectId(g), group_id |-> g]

ActivityInstance(a) ==
    [cls |-> "Activity", id |-> a, project_id |-> GroupProjectId(a), group_id |-> a]

\* What a caller may pass as kwargs["instance"]: nothing, an Event or a GroupEvent.
InlineInstances ==
    {None}
    \cup {[cls |-> "Event", id |-> 1, project_id |-> p, group_id |-> g] :
            p \in Projects, g \in {0, 1}}
    \cup {[cls |-> "GroupEvent", id |-> 1, project_id |-> 1, group_id |-> 1]}

\* model.objects.get(id=instance_id): the row, or None for model.DoesNotExist.
ObjectsGet(model, instance_id) ==
    CASE model = "Group" ->
            IF instance_id \in groups THEN GroupInstance(instance_id) ELSE None
      [] model = "Activity" ->
            IF instance_id \in activities THEN ActivityInstance(instance_id) ELSE None
      [] OTHER -> None

issubclass(model, base) == model = base

isinstance(instance, classes) == instance # None /\ instance.cls \in classes

(***************************************************************************)
(* How a task body ends: it returns, calls retryer.retry(exc=...), or      *)
(* lets an exception escape.  logs are its logger.info records, delayed    *)
(* the send_resource_change_webhook.delay() calls it made, sent the        *)
(* envelopes it handed to the transport and analytics the records it       *)
(* made, each in order; notified are its InstallationNotifier.run calls.   *)
(***************************************************************************)
Return(logs, delayed) ==
    [outcome |-> "return", exc |-> "", logs |-> logs, delayed |-> delayed,
     sent |-> << >>, analytics |-> << >>, notified |-> << >>]

RetryCall(exc, logs, delayed) ==
    [outcome |-> "retry_call", exc |-> exc, logs |-> logs, delayed |-> delayed,
     sent |-> << >>, analytics |-> << >>, notified |-> << >>]

Raise(exc, logs, delayed) ==
    [outcome |-> "raise", exc |-> exc, logs |-> logs, delayed |-> delayed,
     sent |-> << >>, analytics |-> << >>, notified |-> << >>]

\* The ids in S as a list in id order (the order a query returns the rows in).
IdList(S) ==
    LET F[i \in 0 .. MaxInstalls] ==
            IF i = 0 THEN << >>
            ELSE IF i \in S THEN Append(F[i - 1], i) ELSE F[i - 1]
    IN F[MaxInstalls]

\* get_installed_for_organization without its status filter.
get_installed_any_status(org) ==
    {i \in InstallIds :
        /\ installations[i] # None
        /\ installations[i].organization_id = org}

\* app_service.get_installed_for_organization(organization_id=org)
get_installed_for_organization(org) ==
    {i \in InstallIds :
        /\ installations[i] # None
        /\ installations[i].organization_id = org
        /\ installations[i].status = "installed"}

\* _webhook_event_data(event, group_id, project_id)
webhook_event_data(event, group_id, project_id) ==
    [event_id |-> event.id,
     project |-> project_id,
     organization |-> ProjectOrganizationId(project_id),
     issue_id |-> group_id]

\* serialize(instance)
serialize(instance) == [id |-> instance.id, project |-> instance.project_id]

\* The installations for which send_resource_change_webhook.delay() raises
\* in one execution (the broker refuses the message): none, or one of them.
EnqueueFailures == {{}} \cup {{i} : i \in InstallIds}

\* The loop of lines 235-246 ending in the retry request of line 215.
RECURSIVE FanOutThenRetry(_, _, _, _, _, _)
FanOutThenRetry(instance, name, event, ids, delayed, failing) ==
    IF ids = << >> THEN RetryCall("Group.DoesNotExist", << >>, delayed)
    ELSE LET payload == IF isinstance(instance, {"Event", "GroupEvent"})
                        THEN webhook_event_data(instance, instance.group_id,
                                                instance.project_id)
                        ELSE serialize(instance)
             data == name :> payload
             t == [installation_id |-> Head(ids), event |-> event, data |-> data]
         IN FanOutThenRetry(instance, name, event, Tail(ids), Append(delayed, t),
                            failing)

\* The loop of lines 235-246 over the installations left to visit; a
\* delay() that raises is not caught, so it ends the loop and the body.
RECURSIVE FanOut(_, _, _, _, _, _)
FanOut(instance, name, event, ids, delayed, failing) ==
    IF ids = << >> THEN Return(<< >>, delayed)
    ELSE IF isinstance(instance, {"Event", "GroupEvent"}) /\ instance.group_id = 0
    THEN Raise("AssertionError", << >>, delayed)
    ELSE IF Head(ids) \in failing
    THEN Raise("OperationalError", << >>, delayed)
    ELSE LET payload == IF isinstance(instance, {"Event", "GroupEvent"})
                        THEN webhook_event_data(instance, instance.group_id,
                                                instance.project_id)
                        ELSE serialize(instance)
             data == name :> payload
             t == [installation_id |-> Head(ids), event |-> event, data |-> data]
         IN FanOut(instance, name, event, Tail(ids), Append(delayed, t), failing)

\* Lines 222-233: the organization of the instance's project and the
\* installations of it whose app subscribes to the event.
ResolveAndFanOut(instance, name, event, failing) ==
    IF instance.project_id \notin Projects
    THEN Raise("Project.DoesNotExist", << >>, << >>)
    ELSE IF ~OrganizationExists(ProjectOrganizationId(instance.project_id))
    THEN Raise("Organization.DoesNotExist", << >>, << >>)
    ELSE LET org == ProjectOrganizationId(instance.project_id)
             qualifying ==
                {i \in get_installed_for_organization(org) :
                    event \in SentryAppEvents(installations[i].sentry_app_id)}
         IN FanOut(instance, name, event, IdList(qualifying), << >>, failing)

\* Lines 217-224 with the registry test of lines 219-220 left out.
ClassifyAndRouteNoRegistry(instance, name, action, failing) ==
    LET event == name \o "." \o action
    IN IF ~isinstance(instance, {"Group", "Event", "GroupEvent"})
       THEN Return(<< >>, << >>)
       ELSE ResolveAndFanOut(instance, name, event, failing)

\* Lines 217-220 and the isinstance test of line 224.
ClassifyAndRoute(instance, name, action, failing) ==
    LET event == name \o "." \o action
    IN IF event \notin VALID_EVENTS THEN Return(<< >>, << >>)
       ELSE IF ~isinstance(instance, {"Group", "Event", "GroupEvent"})
       THEN Return(<< >>, << >>)
       ELSE ResolveAndFanOut(instance, name, event, failing)

\* Lines 186-195 looking the sender, not its model, up in the rename table.
ResourceNameOfSender(sender) ==
    IF sender \in DOMAIN RESOURCE_RENAMES THEN RESOURCE_RENAMES[sender]
    ELSE Lower(sender)

\* Lines 186-195: the public name of the sender's resource.
ResourceName(sender) ==
    LET model == TYPES[sender]
    IN IF issubclass(model, "Event") THEN Lower(sender)
       ELSE IF model \in DOMAIN RESOURCE_RENAMES THEN RESOURCE_RENAMES[model]
       ELSE Lower(model)

\* Lines 187-190 asking for a retry instead of returning.
MissingInlineInstanceRetries(sender, action, instance_id) ==
    RetryCall("Event.DoesNotExist",
              <<"process_resource_change.event_missing_event">>, << >>)

\* Lines 187-190: an event sender came without its instance.
MissingInlineInstance(sender, action, instance_id) ==
    Return(<<"process_resource_change.event_missing_event">>, << >>)

\* _process_resource_change(action, sender, instance_id, retryer, instance=...)
process_resource_change(action, sender, instance_id, kwargs_instance, failing) ==
    LET model == TYPES[sender]
        name == ResourceName(sender)
    IN IF issubclass(model, "Event")
       THEN IF kwargs_instance = None
            THEN MissingInlineInstance(sender, action, instance_id)
            ELSE ClassifyAndRoute(kwargs_instance, name, action, failing)
       ELSE LET instance == ObjectsGet(model, instance_id)
            IN IF instance = None
               THEN RetryCall(model \o ".DoesNotExist", << >>, << >>)
               ELSE ClassifyAndRoute(instance, name, action, failing)

(***************************************************************************)
(* The task layer: celery's Task.retry and the retry decorator that wraps  *)
(* every task body.                                                        *)
(***************************************************************************)
retry_on == {"RequestException", "ApiHostError", "ApiTimeoutError"}

retry_ignore == {"ClientError"}

\* Task.retry with the budget test off by one.
CanRetryOnceMore(t) == t.retries <= max_retries

\* Task.retry(exc=e) re-queues the task while its retry count is below
\* max_retries, and raises e once the budget is spent.
CanRetry(t) == t.retries < max_retries

NoResult == [outcome |-> "none", exc |-> "", logs |-> << >>]

\* What becomes of task t when its body ended as r: the body returned or
\* raised an ignored error (success); it asked for a retry or raised an
\* error the decorator retries on (re-queued, or failed when the budget is
\* spent); any other exception escapes (failed).  The result keeps the
\* exception the body ended with, "" when it returned.
WantsRetry(r) ==
    \/ r.outcome = "retry_call"
    \/ r.outcome = "raise" /\ r.exc \in retry_on

\* The decorator without its ignore list.
SucceedsOnReturnOnly(r) == r.outcome = "return"

Succeeds(r) ==
    \/ r.outcome = "return"
    \/ r.outcome = "raise" /\ r.exc \in retry_ignore

\* Task.retry re-queuing the task without counting the retry.
TaskAfterUncountedRetry(t, r) ==
    IF r.outcome = "return" \/ (r.outcome = "raise" /\ r.exc \in retry_ignore)
    THEN [t EXCEPT !.state = "succeeded"]
    ELSE IF r.outcome = "retry_call" \/ (r.outcome = "raise" /\ r.exc \in retry_on)
    THEN t
    ELSE [t EXCEPT !.state = "failed"]

TaskAfter(t, r) ==
    IF Succeeds(r) THEN [t EXCEPT !.state = "succeeded"]
    ELSE IF WantsRetry(r) /\ CanRetry(t) THEN [t EXCEPT !.retries = @ + 1]
    ELSE [t EXCEPT !.state = "failed"]

ResultAfter(t, r) ==
    [outcome |-> IF Succeeds(r) THEN "success"
                 ELSE IF WantsRetry(r) /\ CanRetry(t) THEN "retry"
                 ELSE "failure",
     exc |-> r.exc,
     logs |-> r.logs]

Idle == IF task = None THEN TRUE ELSE task.state # "queued"

Queued(name) ==
    IF task = None THEN FALSE ELSE task.name = name /\ task.state = "queued"

\* A worker ran the body of the task in flight, which ended as r.
Execute(r) ==
    /\ task' = TaskAfter(task, r)
    /\ result' = ResultAfter(task, r)
    /\ scheduled' = scheduled \o r.delayed
    /\ sent' = sent \o r.sent
    /\ analytics' = analytics \o r.analytics
    /\ notified' = notified \o r.notified

\* A new task goes on the queue; the effects recorded are those of its change.
Enqueue(t) ==
    /\ Idle
    /\ task' = t
    /\ scheduled' = << >>
    /\ sent' = << >>
    /\ analytics' = << >>
    /\ cleared' = << >>
    /\ notified' = << >>
    /\ result' = NoResult

(***************************************************************************)
(* The delivery gate and the delivery tasks.                               *)
(***************************************************************************)
Users == {1}
UserIds == {0, 1, 2}
Transports == {"ok", "RequestException", "ApiHostError", "ApiTimeoutError",
               "ClientError"}
HookEventSets ==
    {{"issue.created", "issue.assigned", "comment.created"},
     {"error.created", "issue.resolved", "comment.updated"}}
Words == {"issue", "error", "comment", "created", "deleted", "updated",
          "assigned", "resolved"}

\* event.split("."): the parts of an event name made of known words; a name
\* that is not two words around one dot does not unpack into two parts.
Split(event) ==
    IF \E a \in Words, b \in Words : a \o "." \o b = event
    THEN CHOOSE p \in Words \X Words : p[1] \o "." \o p[2] = event
    ELSE <<event>>

\* installation_by_id answering from the row the router saw.
installation_by_id_unchecked(installation_id) ==
    [id |-> installation_id, organization_id |-> 1, sentry_app_id |-> 1]

\* app_service.installation_by_id(id=installation_id)
installation_by_id(installation_id) ==
    IF installation_id \in InstallIds /\ installations[installation_id] # None
    THEN [id |-> installation_id,
          organization_id |-> installations[installation_id].organization_id,
          sentry_app_id |-> installations[installation_id].sentry_app_id]
    ELSE None

\* ServiceHook.objects.get(organization_id=..., actor_id=...)
ServiceHookGet(organization_id, actor_id) ==
    IF /\ servicehooks[actor_id] # None
       /\ servicehooks[actor_id].organization_id = organization_id
    THEN servicehooks[actor_id]
    ELSE None

\* AppPlatformEvent built from a data dict that lines 488-489 wrote into.
AppPlatformEventIntoData(resource, action, install, data, actor) ==
    [resource |-> resource, action |-> action, install |-> install.id,
     data |-> ("resource" :> resource) @@ ("action" :> action) @@ data,
     actor |-> actor]

\* AppPlatformEvent(resource=, action=, install=, data=, actor=)
AppPlatformEvent(resource, action, install, data, actor) ==
    [resource |-> resource, action |-> action, install |-> install.id,
     data |-> data, actor |-> actor]

\* A body that handed envelope to the transport, which answered transport.
Sent(envelope, transport) ==
    IF transport = "ok"
    THEN [Return(<< >>, << >>) EXCEPT !.sent = <<envelope>>]
    ELSE [Raise(transport, << >>, << >>) EXCEPT !.sent = <<envelope>>]

\* Lines 485-497: the envelope is built and sent.
BuildAndSend(installation, event, data, actor, transport) ==
    LET parts == Split(event)
    IN IF Len(parts) # 2 THEN Raise("ValueError", << >>, << >>)
       ELSE Sent(AppPlatformEvent(parts[1], parts[2], installation, data, actor),
                 transport)

\* Lines 462-497 without the subscription test of lines 462-463.
GateIgnoringEvents(servicehook, installation, event, data, actor, transport) ==
    LET project_limited == servicehook.project_ids # {}
    IN IF ~project_limited
       THEN BuildAndSend(installation, event, data, actor, transport)
       ELSE Return(<< >>, << >>)

\* Lines 462-497 sending whether or not scoping records exist.
GateIgnoringScope(servicehook, installation, event, data, actor, transport) ==
    IF event \notin servicehook.events THEN Return(<< >>, << >>)
    ELSE BuildAndSend(installation, event, data, actor, transport)

\* Lines 462-497 for a hook that exists.
GateWithHook(servicehook, installation, event, data, actor, transport) ==
    IF event \notin servicehook.events THEN Return(<< >>, << >>)
    ELSE LET project_limited == servicehook.project_ids # {}
         IN IF ~project_limited
            THEN BuildAndSend(installation, event, data, actor, transport)
            ELSE Return(<< >>, << >>)

\* send_webhooks(installation, event, data=, actor=)
send_webhooks(installation, event, data, actor, transport) ==
    LET servicehook == ServiceHookGet(installation.organization_id, installation.id)
    IN IF servicehook = None
       THEN Return(<<"send_webhooks.missing_servicehook">>, << >>)
       ELSE GateWithHook(servicehook, installation, event, data, actor, transport)

\* send_resource_change_webhook(installation_id, event, data)
send_resource_change_webhook(installation_id, event, data, transport) ==
    LET installation == installation_by_id(installation_id)
    IN IF installation = None
       THEN Return(<<"send_resource_change_webhook.missing_installation">>, << >>)
       ELSE LET r == send_webhooks(installation, event, data, None, transport)
            IN IF r.outcome = "return"
               THEN [r EXCEPT !.analytics =
                        <<[name |-> "resource_change.processed", event |-> event]>>]
               ELSE r

\* user_service.get_user(user_id=user_id)
get_user(user_id) == IF user_id \in Users THEN [id |-> user_id] ELSE None

\* get_webhook_data returning None for a user that does not resolve.
get_webhook_data_requiring_user(installation_id, issue_id, user_id) ==
    LET install == installation_by_id(installation_id)
        issue == ObjectsGet("Group", issue_id)
        user == IF user_id # 0 THEN get_user(user_id) ELSE None
    IN IF install = None
       THEN [found |-> FALSE, logs |-> <<"workflow_notification.missing_installation">>]
       ELSE IF issue = None
       THEN [found |-> FALSE, logs |-> <<"workflow_notification.missing_issue">>]
       ELSE IF user_id # 0 /\ user = None
       THEN [found |-> FALSE, logs |-> <<"workflow_notification.missing_user">>]
       ELSE [found |-> TRUE, install |-> install, issue |-> issue, user |-> user,
             logs |-> << >>]

\* get_webhook_data(installation_id, issue_id, user_id): the body result of
\* its log records and, when it resolves, the (install, issue, user) triple.
get_webhook_data(installation_id, issue_id, user_id) ==
    LET install == installation_by_id(installation_id)
        issue == ObjectsGet("Group", issue_id)
        user == IF user_id # 0 THEN get_user(user_id) ELSE None
    IN IF install = None
       THEN [found |-> FALSE, logs |-> <<"workflow_notification.missing_installation">>]
       ELSE IF issue = None
       THEN [found |-> FALSE, logs |-> <<"workflow_notification.missing_issue">>]
       ELSE [found |-> TRUE, install |-> install, issue |-> issue, user |-> user,
             logs |-> IF user_id # 0 /\ user = None
                      THEN <<"workflow_notification.missing_user">> ELSE << >>]

\* The body result r of send_webhooks seen from a task that logged logs
\* before the call and records analytics record after a normal return.
AfterGate(r, logs, record) ==
    IF r.outcome = "return"
    THEN [r EXCEPT !.logs = logs \o @, !.analytics = <<record>>]
    ELSE [r EXCEPT !.logs = logs \o @]

\* workflow_notification(installation_id, issue_id, type, user_id, data=...)
workflow_notification(installation_id, issue_id, type, user_id, kwargs_data, transport) ==
    LET webhook_data == get_webhook_data(installation_id, issue_id, user_id)
    IN IF ~webhook_data.found THEN Return(webhook_data.logs, << >>)
       ELSE LET data == ("issue" :> serialize(webhook_data.issue)) @@ kwargs_data
            IN AfterGate(send_webhooks(webhook_data.install, "issue." \o type, data,
                                       webhook_data.user, transport),
                         webhook_data.logs,
                         [name |-> "sentry_app.issue." \o type, user_id |-> user_id,
                          group_id |-> issue_id, installation_id |-> installation_id])

\* build_comment_webhook(installation_id, issue_id, type, user_id, data=...)
build_comment_webhook(installation_id, issue_id, type, user_id, kwargs_data, transport) ==
    LET webhook_data == get_webhook_data(installation_id, issue_id, user_id)
        get(key) == IF key \in DOMAIN kwargs_data THEN kwargs_data[key] ELSE None
    IN IF ~webhook_data.found THEN Return(webhook_data.logs, << >>)
       ELSE LET payload == [comment_id |-> get("comment_id"), issue_id |-> issue_id,
                            project_slug |-> get("project_slug"),
                            timestamp |-> get("timestamp"), comment |-> get("comment")]
            IN AfterGate(send_webhooks(webhook_data.install, type, payload,
                                       webhook_data.user, transport),
                         webhook_data.logs,
                         [name |-> type, user_id |-> user_id, group_id |-> issue_id,
                          installation_id |-> installation_id])

(***************************************************************************)
(* The resource-change router.                                             *)
(***************************************************************************)
\* process_resource_change_bound.delay(action, sender, instance_id, instance=...)
\* for a new change; only an Error sender comes with an inline instance.
DelayProcessResourceChange ==
    /\ \E sender \in Senders, action \in Actions, instance_id \in InstanceIds,
          instance \in InlineInstances :
        /\ sender # "Error" => instance = None
        /\ Enqueue([name |-> "process_resource_change_bound", action |-> action,
                    sender |-> sender, instance_id |-> instance_id,
                    instance |-> instance, retries |-> 0, state |-> "queued"])
    /\ UNCHANGED <<datastore, evaluation>>

\* A worker executes process_resource_change_bound.
ProcessResourceChangeBound ==
    /\ Queued("process_resource_change_bound")
    /\ \E failing \in EnqueueFailures :
        Execute(process_resource_change(task.action, task.sender, task.instance_id,
                                        task.instance, failing))
    /\ UNCHANGED <<datastore, cleared, evaluation>>

\* The transaction that creates a Group or an Activity commits.
CommitGroup ==
    /\ \E g \in InstanceIds \ groups : groups' = groups \cup {g}
    /\ UNCHANGED <<installations, activities, servicehooks, org_mapping,
                   task, scheduled, sent, analytics, cleared, notified, evaluation,
                   result>>

CommitActivity ==
    /\ \E a \in InstanceIds \ activities : activities' = activities \cup {a}
    /\ UNCHANGED <<installations, groups, servicehooks, org_mapping,
                   task, scheduled, sent, analytics, cleared, notified, evaluation,
                   result>>

InstallationRows ==
    [organization_id : Organizations, sentry_app_id : Apps, status : Statuses]

NoEffects ==
    /\ task = None
    /\ scheduled = << >>
    /\ sent = << >>
    /\ analytics = << >>
    /\ cleared = << >>
    /\ notified = << >>
    /\ evaluation = None
    /\ result = NoResult

Init ==
    /\ installations \in [InstallIds -> InstallationRows \cup {None}]
    /\ groups = {}
    /\ activities = {}
    /\ servicehooks = [i \in InstallIds |-> None]
    /\ org_mapping = {}
    /\ NoEffects

Next ==
    \/ DelayProcessResourceChange
    \/ ProcessResourceChangeBound
    \/ CommitGroup
    \/ CommitActivity

Spec == Init /\ [][Next]_vars

(***************************************************************************)
(* Delivery: send_resource_change_webhook, workflow_notification and       *)
(* build_comment_webhook, each through the delivery gate.                  *)
(***************************************************************************)
\* The (event, data) pairs the router hands to send_resource_change_webhook.
ResourceChanges ==
    {[event |-> "issue.created", data |-> "issue" :> serialize(GroupInstance(1))],
     [event |-> "error.created",
      data |-> "error" :> webhook_event_data([id |-> 1], 1, 1)]}

WorkflowTypes == {"assigned"}
CommentTypes == {"comment.updated"}
CommentData ==
    {[comment_id |-> 1, project_slug |-> "p", timestamp |-> 1, comment |-> "text"]}

DelaySendResourceChangeWebhook ==
    /\ \E installation_id \in InstallIds, change \in ResourceChanges :
        Enqueue([name |-> "send_resource_change_webhook",
                 installation_id |-> installation_id, event |-> change.event,
                 data |-> change.data, retries |-> 0, state |-> "queued"])
    /\ UNCHANGED <<datastore, evaluation>>

SendResourceChangeWebhook ==
    /\ Queued("send_resource_change_webhook")
    /\ \E transport \in Transports :
        Execute(send_resource_change_webhook(task.installation_id, task.event,
                                             task.data, transport))
    /\ UNCHANGED <<datastore, cleared, evaluation>>

DelayWorkflowNotification ==
    /\ \E installation_id \in InstallIds, issue_id \in InstanceIds,
          type \in WorkflowTypes, user_id \in UserIds :
        Enqueue([name |-> "workflow_notification",
                 installation_id |-> installation_id, issue_id |-> issue_id,
                 type |-> type, user_id |-> user_id, data |-> << >>,
                 retries |-> 0, state |-> "queued"])
    /\ UNCHANGED <<datastore, evaluation>>

WorkflowNotification ==
    /\ Queued("workflow_notification")
    /\ \E transport \in Transports :
        Execute(workflow_notification(task.installation_id, task.issue_id, task.type,
                                      task.user_id, task.data, transport))
    /\ UNCHANGED <<datastore, cleared, evaluation>>

DelayBuildCommentWebhook ==
    /\ \E installation_id \in InstallIds, issue_id \in InstanceIds,
          type \in CommentTypes, user_id \in UserIds, data \in CommentData :
        Enqueue([name |-> "build_comment_webhook",
                 installation_id |-> installation_id, issue_id |-> issue_id,
                 type |-> type, user_id |-> user_id, data |-> data,
                 retries |-> 0, state |-> "queued"])
    /\ UNCHANGED <<datastore, evaluation>>

BuildCommentWebhook ==
    /\ Queued("build_comment_webhook")
    /\ \E transport \in Transports :
        Execute(build_comment_webhook(task.installation_id, task.issue_id, task.type,
                                      task.user_id, task.data, transport))
    /\ UNCHANGED <<datastore, cleared, evaluation>>

\* An installation is uninstalled: its row and its service hook go.
DeleteInstallation ==
    /\ \E i \in InstallIds :
        /\ installations[i] # None
        /\ installations' = [installations EXCEPT ![i] = None]
        /\ servicehooks' = [servicehooks EXCEPT ![i] = None]
    /\ UNCHANGED <<groups, activities, org_mapping,
                   task, scheduled, sent, analytics, cleared, notified, evaluation,
                   result>>

\* The service hooks of the installations in rows: none, or one for the
\* installation's organization.
ServiceHooksFor(rows) ==
    {hooks \in [InstallIds ->
                    [organization_id : Organizations, events : HookEventSets,
                     project_ids : {{}, {1}}] \cup {None}] :
        \A i \in InstallIds :
            hooks[i] # None =>
                /\ rows[i] # None
                /\ hooks[i].organization_id = rows[i].organization_id}

InitDelivery ==
    /\ installations \in
            [InstallIds -> [organization_id : Organizations, sentry_app_id : {1},
                            status : {"installed"}] \cup {None}]
    /\ groups \in SUBSET InstanceIds
    /\ activities = {}
    /\ servicehooks \in ServiceHooksFor(installations)
    /\ org_mapping = {}
    /\ NoEffects

NextDelivery ==
    \/ DelaySendResourceChangeWebhook
    \/ SendResourceChangeWebhook
    \/ DelayWorkflowNotification
    \/ WorkflowNotification
    \/ DelayBuildCommentWebhook
    \/ BuildCommentWebhook
    \/ DeleteInstallation

SpecDelivery == InitDelivery /\ [][NextDelivery]_vars

\* The delivery tasks under the queue's fairness: a worker eventually
\* executes a task that stays on the queue (a retry is due after
\* default_retry_delay).  Every installation is installed for organization 1
\* with a hook that lists the first event set, or has no hook.
InitDeliveryFair ==
    /\ installations \in
            [InstallIds -> {[organization_id |-> 1, sentry_app_id |-> 1,
                             status |-> "installed"], None}]
    /\ groups = InstanceIds
    /\ activities = {}
    /\ servicehooks \in
            {hooks \in ServiceHooksFor(installations) :
                \A i \in InstallIds :
                    hooks[i] # None =>
                        /\ hooks[i].project_ids = {}
                        /\ "issue.created" \in hooks[i].events}
    /\ org_mapping = {}
    /\ NoEffects

WorkersRun ==
    /\ WF_vars(SendResourceChangeWebhook)
    /\ WF_vars(WorkflowNotification)
    /\ WF_vars(BuildCommentWebhook)

SpecDeliveryFair == InitDeliveryFair /\ [][NextDelivery]_vars /\ WorkersRun

(***************************************************************************)
(* Alert-trigger delivery.                                                 *)
(***************************************************************************)
AppIds == {1, 2, 3}

\* app_service.get_sentry_app_by_id(id=sentry_app_id)
get_sentry_app_by_id(sentry_app_id) ==
    IF sentry_app_id \in Apps THEN [id |-> sentry_app_id] ELSE None

\* get_many without its status filter.
get_many_any_status(organization_id, app_id) ==
    {i \in InstallIds :
        /\ installations[i] # None
        /\ installations[i].organization_id = organization_id
        /\ installations[i].sentry_app_id = app_id}

\* app_service.get_many(filter=dict(organization_id=, app_ids=[app], status=INSTALLED))
get_many(organization_id, app_id) ==
    {i \in InstallIds :
        /\ installations[i] # None
        /\ installations[i].organization_id = organization_id
        /\ installations[i].sentry_app_id = app_id
        /\ installations[i].status = "installed"}

\* Lines 149-170 making the analytics record before the send.
AlertSendRecordingFirst(event, rule, sentry_app_id, organization_id, install, additional_payload_key, additional_payload, transport) ==
    LET event_context == webhook_event_data(event, event.group_id, event.project_id)
        base == [event |-> event_context, triggered_rule |-> rule]
        data == IF additional_payload_key # "" /\ additional_payload # << >>
                THEN (additional_payload_key :> additional_payload) @@ base
                ELSE base
        request_data == AppPlatformEvent("event_alert", "triggered", install, data, None)
        r == Sent(request_data, transport)
        has_issue_alert == IF "issue_alert" \in DOMAIN request_data.data
                           THEN request_data.data["issue_alert"] # << >>
                           ELSE FALSE
    IN IF has_issue_alert
       THEN [r EXCEPT !.analytics =
                <<[name |-> "alert_rule_ui_component_webhook.sent",
                   organization_id |-> organization_id,
                   sentry_app_id |-> sentry_app_id,
                   event |-> request_data.resource \o "." \o request_data.action]>>]
       ELSE r

\* Lines 149-170: the payload is built and sent, and the UI-component
\* analytics record made after the send returned.
AlertSend(event, rule, sentry_app_id, organization_id, install, additional_payload_key, additional_payload, transport) ==
    LET event_context == webhook_event_data(event, event.group_id, event.project_id)
        base == [event |-> event_context, triggered_rule |-> rule]
        data == IF additional_payload_key # "" /\ additional_payload # << >>
                THEN (additional_payload_key :> additional_payload) @@ base
                ELSE base
        request_data == AppPlatformEvent("event_alert", "triggered", install, data, None)
        r == Sent(request_data, transport)
        has_issue_alert == IF "issue_alert" \in DOMAIN request_data.data
                           THEN request_data.data["issue_alert"] # << >>
                           ELSE FALSE
    IN IF r.outcome = "return" /\ has_issue_alert
       THEN [r EXCEPT !.analytics =
                <<[name |-> "alert_rule_ui_component_webhook.sent",
                   organization_id |-> organization_id,
                   sentry_app_id |-> sentry_app_id,
                   event |-> request_data.resource \o "." \o request_data.action]>>]
       ELSE r

\* Lines 132-147: the app and its one installation in the organization.
AlertInstallation(event, rule, sentry_app_id, organization_id, additional_payload_key, additional_payload, transport) ==
    LET sentry_app == get_sentry_app_by_id(sentry_app_id)
    IN IF sentry_app = None
       THEN Return(<<"event_alert_webhook.missing_sentry_app">>, << >>)
       ELSE LET installs == IdList(get_many(organization_id, sentry_app.id))
            IN IF installs = << >>
               THEN Return(<<"event_alert_webhook.missing_installation">>, << >>)
               ELSE IF Len(installs) # 1
               THEN Raise("ValueError", << >>, << >>)
               ELSE AlertSend(event, rule, sentry_app_id, organization_id,
                              [id |-> installs[1]],
                              additional_payload_key, additional_payload, transport)

\* send_alert_event(event, rule, sentry_app_id, additional_payload_key, additional_payload)
send_alert_event(event, rule, sentry_app_id, additional_payload_key, additional_payload, transport) ==
    IF event.group_id = 0 THEN Raise("AssertionError", << >>, << >>)
    ELSE IF event.project_id \notin Projects
    THEN Raise("Project.DoesNotExist", << >>, << >>)
    ELSE IF ~OrganizationExists(ProjectOrganizationId(event.project_id))
    THEN Raise("Organization.DoesNotExist", << >>, << >>)
    ELSE AlertInstallation(event, rule, sentry_app_id,
                           ProjectOrganizationId(event.project_id),
                           additional_payload_key, additional_payload, transport)

\* What a caller passes as (additional_payload_key, additional_payload):
\* nothing, a key with an empty payload, or, as notify_sentry_app does, the
\* rule's schema-defined settings under "issue_alert".
AdditionalPayloads ==
    {[key |-> "", payload |-> << >>],
     [key |-> "issue_alert", payload |-> << >>],
     [key |-> "issue_alert", payload |-> [id |-> 1, settings |-> "s"]]}

DelaySendAlertEvent ==
    /\ \E event \in InlineInstances \ {None}, sentry_app_id \in AppIds,
          extra \in AdditionalPayloads :
        Enqueue([name |-> "send_alert_event", event |-> event, rule |-> "rule",
                 sentry_app_id |-> sentry_app_id,
                 additional_payload_key |-> extra.key,
                 additional_payload |-> extra.payload,
                 retries |-> 0, state |-> "queued"])
    /\ UNCHANGED <<datastore, evaluation>>

SendAlertEvent ==
    /\ Queued("send_alert_event")
    /\ \E transport \in Transports :
        Execute(send_alert_event(task.event, task.rule, task.sentry_app_id,
                                 task.additional_payload_key,
                                 task.additional_payload, transport))
    /\ UNCHANGED <<datastore, cleared, evaluation>>

InitAlert ==
    /\ installations \in [InstallIds -> InstallationRows \cup {None}]
    /\ groups = {}
    /\ activities = {}
    /\ servicehooks = [i \in InstallIds |-> None]
    /\ org_mapping = {}
    /\ NoEffects

NextAlert ==
    \/ DelaySendAlertEvent
    \/ SendAlertEvent

SpecAlert == InitAlert /\ [][NextAlert]_vars

(***************************************************************************)
(* Region cache invalidation.                                              *)
(***************************************************************************)
Regions == {"us", "eu"}

\* SentryApp.objects.get(id=sentry_app_id): the row, or None for DoesNotExist.
SentryAppGet(sentry_app_id) ==
    IF sentry_app_id \in Apps
    THEN [id |-> sentry_app_id, application_id |-> 100 + sentry_app_id]
    ELSE None

\* The ids of the organizations in orgs as a list in id order.
OrgList(orgs) ==
    LET F[o \in 0 .. 2] ==
            IF o = 0 THEN << >>
            ELSE IF o \in orgs THEN Append(F[o - 1], o) ELSE F[o - 1]
    IN F[2]

\* The region query of lines 311-313 without its region_name filter.
RegionQueryAnyRegion(organization_ids, region_name) ==
    {row.organization_id : row \in
        {m \in org_mapping : m.organization_id \in organization_ids}}

\* OrganizationMapping.objects.filter(organization_id__in=, region_name=)
RegionQuery(organization_ids, region_name) ==
    {row.organization_id : row \in
        {m \in org_mapping : /\ m.organization_id \in organization_ids
                             /\ m.region_name = region_name}}

\* Lines 314-319 clearing only the first installation of each organization.
RECURSIVE ClearFirstInstallation(_, _, _, _)
ClearFirstInstallation(orgs, install_map, region_name, calls) ==
    IF orgs = << >> THEN calls
    ELSE LET installs == install_map[Head(orgs)]
             first == [key |-> <<"get_installation", installs[1]>>,
                       region_name |-> region_name]
         IN ClearFirstInstallation(Tail(orgs), install_map, region_name,
                                   Append(calls, first))

\* Lines 314-319: one clear_key call per installation of each organization.
RECURSIVE ClearInstallations(_, _, _, _)
ClearInstallations(orgs, install_map, region_name, calls) ==
    IF orgs = << >> THEN calls
    ELSE LET installs == install_map[Head(orgs)]
             keys == [k \in DOMAIN installs |->
                        [key |-> <<"get_installation", installs[k]>>,
                         region_name |-> region_name]]
         IN ClearInstallations(Tail(orgs), install_map, region_name, calls \o keys)

\* clear_region_cache(sentry_app_id, region_name): its clear_key calls.
clear_region_cache(sentry_app_id, region_name) ==
    LET sentry_app == SentryAppGet(sentry_app_id)
    IN IF sentry_app = None THEN << >>
       ELSE LET install_query ==
                    {i \in InstallIds : /\ installations[i] # None
                                        /\ installations[i].sentry_app_id = sentry_app.id}
                install_orgs ==
                    {installations[i].organization_id : i \in install_query}
                install_map ==
                    [o \in install_orgs |->
                        IdList({i \in install_query :
                                    installations[i].organization_id = o})]
                app_key == [key |-> <<"get_by_application_id", sentry_app.application_id>>,
                            region_name |-> region_name]
            IN ClearInstallations(OrgList(RegionQuery(install_orgs, region_name)),
                                  install_map, region_name, <<app_key>>)

DelayClearRegionCache ==
    /\ \E sentry_app_id \in AppIds, region_name \in Regions :
        Enqueue([name |-> "clear_region_cache", sentry_app_id |-> sentry_app_id,
                 region_name |-> region_name, retries |-> 0, state |-> "queued"])
    /\ UNCHANGED <<datastore, evaluation>>

ClearRegionCache ==
    /\ Queued("clear_region_cache")
    /\ cleared' = clear_region_cache(task.sentry_app_id, task.region_name)
    /\ task' = [task EXCEPT !.state = "succeeded"]
    /\ result' = [outcome |-> "success", exc |-> "", logs |-> << >>]
    /\ UNCHANGED <<datastore, scheduled, sent, analytics, notified, evaluation>>

\* The OrganizationMapping tables: at most one row for an organization.
OrganizationMappings ==
    {rows \in SUBSET [organization_id : Organizations, region_name : Regions] :
        \A a \in rows, b \in rows : a.organization_id = b.organization_id => a = b}

InitCache ==
    /\ installations \in
            [InstallIds -> [organization_id : Organizations, sentry_app_id : Apps,
                            status : {"installed"}] \cup {None}]
    /\ groups = {}
    /\ activities = {}
    /\ servicehooks = [i \in InstallIds |-> None]
    /\ org_mapping \in OrganizationMappings
    /\ NoEffects

NextCache ==
    \/ DelayClearRegionCache
    \/ ClearRegionCache

SpecCache == InitCache /\ [][NextCache]_vars

(***************************************************************************)
(* The installation-created notification.                                  *)
(***************************************************************************)
\* SentryAppInstallation.objects.get restricted to Installed rows.
SentryAppInstallationGetInstalled(installation_id) ==
    IF /\ installation_id \in InstallIds
       /\ installations[installation_id] # None
       /\ installations[installation_id].status = "installed"
    THEN [id |-> installation_id, status |-> installations[installation_id].status]
    ELSE None

\* SentryAppInstallation.objects.get(id=installation_id): the row whatever
\* its status, or None for DoesNotExist.
SentryAppInstallationGet(installation_id) ==
    IF installation_id \in InstallIds /\ installations[installation_id] # None
    THEN [id |-> installation_id, status |-> installations[installation_id].status]
    ELSE None

\* InstallationNotifier.run(install=, user=, action="created"), whose request
\* the transport answered with transport.
InstallationNotifierRun(install, user, action, transport) ==
    LET call == [install |-> install.id, user |-> user.id, action |-> action]
    IN IF transport = "ok"
       THEN [Return(<< >>, << >>) EXCEPT !.notified = <<call>>]
       ELSE [Raise(transport, << >>, << >>) EXCEPT !.notified = <<call>>]

\* installation_webhook(installation_id, user_id)
installation_webhook(installation_id, user_id, transport) ==
    LET install == SentryAppInstallationGet(installation_id)
        user == get_user(user_id)
    IN IF install = None
       THEN Return(<<"installation_webhook.missing_installation">>, << >>)
       ELSE IF user = None
       THEN Return(<<"installation_webhook.missing_user">>, << >>)
       ELSE InstallationNotifierRun(install, user, "created", transport)

DelayInstallationWebhook ==
    /\ \E installation_id \in InstallIds, user_id \in UserIds :
        Enqueue([name |-> "installation_webhook",
                 installation_id |-> installation_id, user_id |-> user_id,
                 retries |-> 0, state |-> "queued"])
    /\ UNCHANGED <<datastore, evaluation>>

InstallationWebhook ==
    /\ Queued("installation_webhook")
    /\ \E transport \in Transports :
        Execute(installation_webhook(task.installation_id, task.user_id, transport))
    /\ UNCHANGED <<datastore, cleared, evaluation>>

InitInstall ==
    /\ installations \in
            [InstallIds -> [organization_id : {1}, sentry_app_id : Apps,
                            status : Statuses] \cup {None}]
    /\ groups = {}
    /\ activities = {}
    /\ servicehooks = [i \in InstallIds |-> None]
    /\ org_mapping = {}
    /\ NoEffects

NextInstall ==
    \/ DelayInstallationWebhook
    \/ InstallationWebhook

SpecInstall == InitInstall /\ [][NextInstall]_vars

(***************************************************************************)
(* The event frequency condition handlers                                  *)
(* (src/sentry/workflow_engine/handlers/condition/                         *)
(* event_frequency_handlers.py).                                           *)
(***************************************************************************)
\* The snuba_results lists a job may carry, and the jobs: without the key,
\* or with one of the lists.
ResultLists == UNION {[1 .. n -> 0 .. MaxCount] : n \in 0 .. MaxResults}

WorkflowJobs ==
    {[event |-> 1]} \cup {[event |-> 1, snuba_results |-> q] : q \in ResultLists}

\* The comparison of a condition: its value is an integer >= 0.
Comparisons == {[value |-> v] : v \in 0 .. MaxCount}

\* value.get("snuba_results", [])
GetSnubaResults(value) ==
    IF "snuba_results" \in DOMAIN value THEN value.snuba_results ELSE << >>

\* percent_increase(result, comparison_duration) of
\* sentry.rules.conditions.event_frequency
percent_increase(res, comparison_duration) ==
    IF comparison_duration > 0
    THEN IF res > comparison_duration
         THEN ((res - comparison_duration) * 100) \div comparison_duration
         ELSE 0
    ELSE 0

\* EventFrequencyCountHandler.evaluate_value comparing with >= .
EventFrequencyCountHandler_evaluate_value_at_least(value, comparison) ==
    IF Len(GetSnubaResults(value)) # 1 THEN FALSE
    ELSE value.snuba_results[1] >= comparison.value

\* EventFrequencyCountHandler.evaluate_value(value, comparison)
EventFrequencyCountHandler_evaluate_value(value, comparison) ==
    IF Len(GetSnubaResults(value)) # 1 THEN FALSE
    ELSE value.snuba_results[1] > comparison.value

\* EventFrequencyPercentHandler.evaluate_value(value, comparison)
EventFrequencyPercentHandler_evaluate_value(value, comparison) ==
    IF Len(GetSnubaResults(value)) # 2 THEN FALSE
    ELSE percent_increase(value.snuba_results[1], value.snuba_results[2])
            > comparison.value

\* A count condition is evaluated on a job.
EvaluateCount ==
    /\ \E value \in WorkflowJobs, comparison \in Comparisons :
        evaluation' =
            [handler |-> "EventFrequencyCountHandler", value |-> value,
             comparison |-> comparison,
             result |-> EventFrequencyCountHandler_evaluate_value(value, comparison)]
    /\ UNCHANGED <<datastore, task, scheduled, sent, analytics, cleared, notified,
                   result>>

\* A percent condition is evaluated on a job.
EvaluatePercent ==
    /\ \E value \in WorkflowJobs, comparison \in Comparisons :
        evaluation' =
            [handler |-> "EventFrequencyPercentHandler", value |-> value,
             comparison |-> comparison,
             result |-> EventFrequencyPercentHandler_evaluate_value(value, comparison)]
    /\ UNCHANGED <<datastore, task, scheduled, sent, analytics, cleared, notified,
                   result>>

InitFrequency ==
    /\ installations = [i \in InstallIds |-> None]
    /\ groups = {}
    /\ activities = {}
    /\ servicehooks = [i \in InstallIds |-> None]
    /\ org_mapping = {}
    /\ NoEffects

NextFrequency ==
    \/ EvaluateCount
    \/ EvaluatePercent

SpecFrequency == InitFrequency /\ [][NextFrequency]_vars

(***************************************************************************)
(* Properties of the router.                                               *)
(***************************************************************************)
RouterTask ==
    IF task = None THEN FALSE ELSE task.name = "process_resource_change_bound"

\* The router task has been executed at least once since it was enqueued.
RouterExecuted == RouterTask /\ result.outcome # "none"

\* The event name the router classifies the task's (sender, action) as.
TaskEvent == ResourceName(task.sender) \o "." \o task.action

\* The sender's rows are fetched by id (lines 209-215) and the row is absent.
LookupFails ==
    /\ ~issubclass(TYPES[task.sender], "Event")
    /\ ObjectsGet(TYPES[task.sender], task.instance_id) = None

\* How many of the scheduled delivery tasks are for installation i.
ScheduledFor(i) ==
    Cardinality({k \in DOMAIN scheduled : scheduled[k].installation_id = i})

\* C1 as stated, for the senders Group and Error: a router invocation whose
\* classified event name (issue.deleted, error.deleted) is not in
\* VALID_EVENTS schedules no delivery task and has no side effect, in
\* particular requests no retry, whatever the datastore holds.
C1_InvalidEventNoSideEffect ==
    (RouterExecuted /\ task.sender \in {"Group", "Error"}
        /\ TaskEvent \notin VALID_EVENTS)
        => /\ scheduled = << >>
           /\ result.outcome # "retry"
           /\ task.retries = 0

\* C1 amended: a router execution whose classified event name is not in
\* VALID_EVENTS schedules no delivery task; it asks for a retry (DoesNotExist
\* escapes once the budget is spent) exactly when the sender's rows are
\* fetched by id and the row is absent, and otherwise returns normally
\* without a retry.
C1_InvalidEventRetriesOnlyForMissingRow ==
    [][(ProcessResourceChangeBound /\ TaskEvent \notin VALID_EVENTS)
        => /\ scheduled' = << >>
           /\ IF LookupFails
              THEN /\ result'.outcome \in {"retry", "failure"}
                   /\ result'.exc = TYPES[task.sender] \o ".DoesNotExist"
              ELSE /\ result'.outcome = "success"
                   /\ task'.retries = task.retries
                   /\ task'.state = "succeeded"]_vars

\* An invalid event, a retry for the missing row, then a normal return.
C1_Witness ==
    /\ RouterExecuted
    /\ TaskEvent \notin VALID_EVENTS
    /\ task.state = "succeeded"
    /\ task.retries > 0
    /\ scheduled = << >>

\* The instance the router task resolved, for a Group or an Error sender.
TaskInstance ==
    IF task.sender = "Error" THEN task.instance ELSE GroupInstance(task.instance_id)

\* Installation i is installed for organization org and its app subscribes to event.
Qualifies(i, org, event) ==
    /\ installations[i] # None
    /\ installations[i].status = "installed"
    /\ installations[i].organization_id = org
    /\ event \in SentryAppEvents(installations[i].sentry_app_id)

\* The router completed on a resolvable Group or Error instance with a valid event.
C2_Completed ==
    /\ RouterTask
    /\ task.state = "succeeded"
    /\ task.sender \in {"Group", "Error"}
    /\ TaskInstance # None
    /\ TaskEvent \in VALID_EVENTS

\* C2: a completed router invocation on a resolvable Group or Error instance
\* with a valid event has scheduled exactly one delivery task for each
\* installation that is installed for the instance's organization and whose
\* app subscribes to the event, each with the classified event name, and no
\* task for any other installation (none at all when none qualifies).
C2_FanOutExactlyQualifying ==
    C2_Completed =>
        LET org == ProjectOrganizationId(TaskInstance.project_id)
        IN /\ \A i \in InstallIds :
                ScheduledFor(i) = IF Qualifies(i, org, TaskEvent) THEN 1 ELSE 0
           /\ \A k \in DOMAIN scheduled :
                /\ scheduled[k].event = TaskEvent
                /\ scheduled[k].installation_id \in InstallIds
           /\ (task.sender = "Group" /\ task.action = "created")
                => TaskEvent = "issue.created"

\* Group + created fans out to one installation while another does not qualify.
C2_Witness ==
    /\ C2_Completed
    /\ TaskEvent = "issue.created"
    /\ Len(scheduled) = 1
    /\ \E i \in InstallIds : installations[i] # None /\ ScheduledFor(i) = 0

\* C3: the router invoked for sender Error without an inline instance is a
\* no-op: no delivery task, no retry, no exception, one log record.
C3_MissingInlineInstanceIsNoOp ==
    (RouterExecuted /\ task.sender = "Error" /\ task.instance = None)
        => /\ scheduled = << >>
           /\ task.state = "succeeded"
           /\ task.retries = 0
           /\ result.outcome = "success"
           /\ result.logs = <<"process_resource_change.event_missing_event">>

C3_Witness ==
    /\ RouterExecuted
    /\ task.sender = "Error"
    /\ task.instance = None
    /\ task.state = "succeeded"
    /\ \E i \in InstallIds : Qualifies(i, 1, "error.created")

\* C4: while the lookup of a non-event instance fails, each execution
\* schedules nothing and re-queues the task with one more retry, until the
\* execution with retries = max_retries, which ends the task as failed; the
\* retry count never exceeds max_retries.
C4_LookupFailureRetriedMaxRetriesTimes ==
    /\ [](RouterTask => task.retries <= max_retries)
    /\ [][(ProcessResourceChangeBound /\ LookupFails)
            => /\ scheduled' = scheduled
               /\ IF task.retries < max_retries
                  THEN /\ task'.state = "queued"
                       /\ task'.retries = task.retries + 1
                       /\ result'.outcome = "retry"
                  ELSE /\ task'.state = "failed"
                       /\ task'.retries = max_retries
                       /\ result'.outcome = "failure"]_vars

\* The lookup failed on all four executions: three retries, then failure.
C4_Witness ==
    /\ RouterTask
    /\ task.sender = "Group"
    /\ task.state = "failed"
    /\ task.retries = max_retries
    /\ result.exc = "Group.DoesNotExist"
    /\ scheduled = << >>

\* The router execution ended because one delay() call raised.
EnqueueFailed ==
    /\ RouterTask
    /\ task.state = "failed"
    /\ result.exc = "OperationalError"

\* The qualifying installations of the task's change left without a
\* delivery task.
Unscheduled ==
    {i \in InstallIds :
        /\ Qualifies(i, ProjectOrganizationId(TaskInstance.project_id), TaskEvent)
        /\ ScheduledFor(i) = 0}

\* C17: when enqueueing the delivery task of one qualifying installation
\* fails, the delivery tasks of all the other qualifying installations of
\* the invocation are still enqueued: the failing one is the only
\* qualifying installation left without a delivery task.
C17_EnqueueFailureBlocksNoOtherItem ==
    EnqueueFailed => Cardinality(Unscheduled) <= 1

\* C18 as stated: the classifier names each kind of the type table by its
\* rename from the rename table when the kind has one and by the lower-cased
\* kind otherwise (Group -> issue, Error -> error, Comment -> comment), and
\* the event name is name.action.
C18_NameIsRenameOrLowerCasedKind ==
    RouterTask =>
        /\ ResourceName(task.sender) =
                IF task.sender \in DOMAIN RESOURCE_RENAMES
                THEN RESOURCE_RENAMES[task.sender]
                ELSE Lower(task.sender)
        /\ TaskEvent = ResourceName(task.sender) \o "." \o task.action

\* The name the classifier gives each sender of the type table.
ClassifiedName ==
    [Group |-> "issue", Error |-> "error", Comment |-> "activity"]

\* C18 amended: the classifier is defined on every sender of the type table
\* and names an event sender by the lower-cased sender (Error -> error) and
\* any other sender by the rename of its model class when the rename table
\* has one and by the lower-cased model class name otherwise (Group ->
\* issue, Comment, whose model is Activity, -> activity); the event name is
\* name.action, and every delivery task the router schedules carries that
\* event name and its data under that name.
C18_NameIsRenameOrLowerCasedModel ==
    /\ \A sender \in DOMAIN TYPES : ResourceName(sender) = ClassifiedName[sender]
    /\ RouterTask =>
        /\ TaskEvent = ClassifiedName[task.sender] \o "." \o task.action
        /\ \A k \in DOMAIN scheduled :
            /\ scheduled[k].event = ClassifiedName[task.sender] \o "." \o task.action
            /\ DOMAIN scheduled[k].data = {ClassifiedName[task.sender]}

\* The router classified a created Comment whose Activity row exists.
C18_Witness ==
    /\ RouterExecuted
    /\ task.state = "succeeded"
    /\ task.sender = "Comment"
    /\ task.action = "created"
    /\ task.instance_id \in activities
    /\ TaskEvent = "activity.created"
    /\ scheduled = << >>

\* The router gets as far as resolving the organization of its instance:
\* the instance resolves to a Group or an event and the event name is valid.
ReachesOrganization ==
    /\ task.sender \in {"Group", "Error"}
    /\ IF task.sender = "Error" THEN task.instance # None
       ELSE task.instance_id \in groups
    /\ TaskEvent \in VALID_EVENTS

\* The project of the resolved instance names an organization without a row.
OrganizationUnresolved ==
    ProjectOrganizationId(TaskInstance.project_id) \notin Organizations

\* C19: a router execution that finds no Organization row for the project of
\* its resolved instance fails: the exception escapes, no delivery task is
\* scheduled and the task is not re-queued.
C19_UnresolvedOrganizationFails ==
    [][(ProcessResourceChangeBound /\ ReachesOrganization /\ OrganizationUnresolved)
        => /\ scheduled' = scheduled
           /\ scheduled' = << >>
           /\ task'.state = "failed"
           /\ task'.retries = task.retries
           /\ result'.outcome = "failure"
           /\ result'.exc \notin retry_on]_vars

\* An error event of the project whose organization has no row, with an
\* installation subscribed to error.created.
C19_Witness ==
    /\ RouterExecuted
    /\ ReachesOrganization
    /\ TaskEvent = "error.created"
    /\ OrganizationUnresolved
    /\ \E i \in InstallIds : Qualifies(i, 1, "error.created")
    /\ task.state = "failed"
    /\ task.retries = 0
    /\ scheduled = << >>

\* The executed router step asked for the not-found retry: the task is
\* re-queued, or DoesNotExist escapes with the budget spent.
NotFoundRetryRequested ==
    result'.exc \in {"Group.DoesNotExist", "Activity.DoesNotExist"}

\* C21: no router execution both schedules a delivery task and requests the
\* not-found retry: an execution that requests it leaves the schedule as it
\* was, and empty; a re-queued router task has scheduled nothing so far; so
\* when an attempt completes, after any number of not-found retries, each
\* qualifying installation has exactly one delivery task and no other
\* installation has one.
C21_RetriesNeverDuplicateFanOut ==
    /\ [][ProcessResourceChangeBound =>
            /\ NotFoundRetryRequested =>
                    /\ scheduled' = scheduled
                    /\ scheduled' = << >>
            /\ scheduled' # scheduled => task'.state # "queued"]_vars
    /\ [](Queued("process_resource_change_bound") => scheduled = << >>)
    /\ [](C2_Completed =>
            \A i \in InstallIds :
                ScheduledFor(i) =
                    IF Qualifies(i, ProjectOrganizationId(TaskInstance.project_id),
                                 TaskEvent)
                    THEN 1 ELSE 0)

\* After two not-found retries the Group row was committed and the third
\* attempt scheduled one delivery task for each qualifying installation.
C21_Witness ==
    /\ C2_Completed
    /\ task.sender = "Group"
    /\ task.retries = 2
    /\ Len(scheduled) = MaxInstalls
    /\ \A i \in InstallIds : ScheduledFor(i) = 1

\* C22: the router schedules delivery tasks only for a sender whose instance
\* is a Group or an event; for sender Comment, whose instance is an
\* Activity, no delivery task is ever scheduled, whatever the action, the
\* Activity row and the installations and their subscriptions.
C22_CommentNeverFansOut ==
    RouterTask =>
        /\ task.sender = "Comment" => scheduled = << >>
        /\ scheduled # << >> => TYPES[task.sender] \in {"Group", "Event"}

\* The router completed for an updated Comment whose Activity row exists,
\* with an installation of the organization subscribed to comment.updated.
C22_Witness ==
    /\ RouterExecuted
    /\ task.sender = "Comment"
    /\ task.action = "updated"
    /\ task.instance_id \in activities
    /\ task.state = "succeeded"
    /\ \E i \in InstallIds : Qualifies(i, 1, "comment.updated")
    /\ scheduled = << >>

(***************************************************************************)
(* Properties of the delivery gate and the delivery tasks.                 *)
(***************************************************************************)
TaskNamed(name) == IF task = None THEN FALSE ELSE task.name = name

\* A step that executes the queued task called name: only its execution
\* changes a queued task.
Executes(name) == Queued(name) /\ task' # task

\* One of the three tasks that call send_webhooks is executed.
GateCallerRuns ==
    \/ Executes("send_resource_change_webhook")
    \/ Executes("workflow_notification")
    \/ Executes("build_comment_webhook")

\* The event the task in flight hands to send_webhooks.
GateEvent ==
    CASE task.name = "send_resource_change_webhook" -> task.event
      [] task.name = "workflow_notification" -> "issue." \o task.type
      [] task.name = "build_comment_webhook" -> task.type

\* The task in flight gets as far as calling send_webhooks.
GateReached ==
    /\ installations[task.installation_id] # None
    /\ task.name \in {"workflow_notification", "build_comment_webhook"}
            => task.issue_id \in groups

\* The service hook of the task's installation.
TaskHook == servicehooks[task.installation_id]

\* The hook exists and lists the event.
HookListsEvent ==
    IF TaskHook = None THEN FALSE ELSE GateEvent \in TaskHook.events

\* The gate lets the task's event through.
GateOpen == GateReached /\ HookListsEvent /\ TaskHook.project_ids = {}

\* C5: every envelope a send_resource_change_webhook task sends, on its first
\* execution or on a retry, is the same function of (installation_id, event,
\* data): resource.action is the event, install the installation and data
\* the data argument; an execution makes one delivery attempt when the gate
\* is open and none otherwise, and changes neither the task's arguments nor
\* the datastore.
C5_EveryAttemptSendsTheSameEnvelope ==
    /\ [](TaskNamed("send_resource_change_webhook") =>
            \A k \in DOMAIN sent :
                /\ sent[k].resource \o "." \o sent[k].action = task.event
                /\ sent[k].install = task.installation_id
                /\ sent[k].data = task.data
                /\ sent[k].actor = None
                /\ sent[k] = sent[1])
    /\ [][Executes("send_resource_change_webhook") =>
            /\ Len(sent') = Len(sent) + (IF GateOpen THEN 1 ELSE 0)
            /\ task'.installation_id = task.installation_id
            /\ task'.event = task.event
            /\ task'.data = task.data
            /\ datastore' = datastore]_vars

\* A retried task has made two delivery attempts.
C5_Witness ==
    /\ TaskNamed("send_resource_change_webhook")
    /\ task.retries >= 1
    /\ Len(sent) >= 2
    /\ sent[1] = sent[2]

\* C6: when the installation has no service hook, or its hook does not list
\* the event, an execution of any of the three callers of send_webhooks
\* makes no HTTP call and ends normally.
C6_GateSkipsWithoutHookOrSubscription ==
    [][(GateCallerRuns /\ GateReached /\ ~HookListsEvent)
        => /\ sent' = sent
           /\ result'.outcome = "success"
           /\ task'.state = "succeeded"]_vars

\* A comment webhook went through the gate of a hook that does not list
\* comment.updated.
C6_Witness ==
    /\ TaskNamed("build_comment_webhook")
    /\ task.state = "succeeded"
    /\ task.type = "comment.updated"
    /\ TaskHook # None
    /\ ~HookListsEvent
    /\ analytics # << >>
    /\ sent = << >>

C12_ClientErrorIgnoredTransientErrorRetried ==
    [][GateCallerRuns =>
        /\ result'.exc = "ClientError" =>
                /\ task'.state = "succeeded"
                /\ task'.retries = task.retries
                /\ result'.outcome = "success"
                /\ Len(sent') = Len(sent) + 1
        /\ result'.exc \in retry_on =>
                /\ Len(sent') = Len(sent) + 1
                /\ IF task.retries < max_retries
                   THEN /\ task'.state = "queued"
                        /\ task'.retries = task.retries + 1
                        /\ result'.outcome = "retry"
                   ELSE /\ task'.state = "failed"
                        /\ result'.outcome = "failure"]_vars

\* A notification was retried after a transient error and then ended on a
\* client error, with no further attempt.
C12_Witness ==
    /\ TaskNamed("workflow_notification")
    /\ task.state = "succeeded"
    /\ task.retries = 1
    /\ result.exc = "ClientError"
    /\ result.outcome = "success"
    /\ Len(sent) = 2
    /\ analytics = << >>

\* C14: an execution of send_resource_change_webhook, first or retry, that
\* finds its installation removed makes no HTTP call, requests no retry and
\* ends the task normally with the missing_installation log record; an
\* execution makes an HTTP call only when the installation exists at that
\* time and the delivery gate lets the event through.
C14_RemovedInstallationIsLoggedNoOp ==
    [][Executes("send_resource_change_webhook") =>
        /\ installations[task.installation_id] = None =>
                /\ sent' = sent
                /\ task'.state = "succeeded"
                /\ task'.retries = task.retries
                /\ result'.outcome = "success"
                /\ result'.logs =
                        <<"send_resource_change_webhook.missing_installation">>
        /\ sent' # sent =>
                /\ installations[task.installation_id] # None
                /\ GateOpen]_vars

\* The installation was removed between a failed attempt and its retry.
C14_Witness ==
    /\ TaskNamed("send_resource_change_webhook")
    /\ task.state = "succeeded"
    /\ task.retries >= 1
    /\ Len(sent) = 1
    /\ installations[task.installation_id] = None
    /\ result.logs = <<"send_resource_change_webhook.missing_installation">>

\* A workflow or a comment notification is executed.
NotificationRuns ==
    \/ Executes("workflow_notification")
    \/ Executes("build_comment_webhook")

\* The task's installation, issue, or (given) actor user does not resolve.
InstallationMissing == installations[task.installation_id] = None
IssueMissing == task.issue_id \notin groups
UserMissing == task.user_id # 0 /\ get_user(task.user_id) = None

\* The execution was a no-op: nothing sent, nothing recorded, no retry, and
\* the task ended normally.
NotificationNoOp ==
    /\ sent' = sent
    /\ analytics' = analytics
    /\ task'.state = "succeeded"
    /\ task'.retries = task.retries
    /\ result'.outcome = "success"

DeliveryQueued ==
    \/ Queued("send_resource_change_webhook")
    \/ Queued("workflow_notification")
    \/ Queued("build_comment_webhook")

\* The task in flight has ended: it completed or it failed.
Terminal == IF task = None THEN FALSE ELSE task.state \in {"succeeded", "failed"}

\* C13: every delivery task on the queue eventually ends, completed or
\* failed; a task makes at most 1 + max_retries delivery attempts, one per
\* execution, and never has more than max_retries retries; each execution
\* either ends the task or re-queues it with exactly one more retry (so its
\* executions are one after the other), and an execution that fails
\* transiently with the budget spent ends the task as failed.
C13_EveryDeliveryTaskEnds ==
    /\ DeliveryQueued ~> Terminal
    /\ [](task # None =>
            /\ task.retries <= max_retries
            /\ Len(sent) <= task.retries + 1
            /\ Len(sent) <= 1 + max_retries)
    /\ [][GateCallerRuns =>
            /\ \/ task'.state \in {"succeeded", "failed"} /\ task'.retries = task.retries
               \/ task'.state = "queued" /\ task'.retries = task.retries + 1
            /\ (result'.exc \in retry_on /\ task.retries = max_retries)
                    => task'.state = "failed"]_vars

\* The transport failed transiently on all four executions.
C13_Witness ==
    /\ TaskNamed("send_resource_change_webhook")
    /\ task.state = "failed"
    /\ task.retries = max_retries
    /\ result.exc \in retry_on
    /\ Len(sent) = 1 + max_retries

(***************************************************************************)
(* Properties of alert-trigger delivery.                                   *)
(***************************************************************************)
\* A send_alert_event task has been executed at least once.
AlertExecuted == TaskNamed("send_alert_event") /\ result.outcome # "none"

\* The event has a group, and its project's organization resolves.
AlertEventResolves ==
    /\ task.event.group_id # 0
    /\ OrganizationExists(ProjectOrganizationId(task.event.project_id))

\* The Installed installations of the task's app in the event's organization.
AlertInstalled ==
    {i \in InstallIds :
        /\ installations[i] # None
        /\ installations[i].sentry_app_id = task.sentry_app_id
        /\ installations[i].organization_id =
                ProjectOrganizationId(task.event.project_id)
        /\ installations[i].status = "installed"}

\* C8 as stated: for an app with no Installed installation in the event's
\* organization, and likewise for an app that does not exist, the task makes
\* no delivery, records no analytics, logs missing_installation and ends
\* normally without a retry.
C8_NoInstallationLogsMissingInstallation ==
    (AlertExecuted /\ AlertEventResolves
        /\ (task.sentry_app_id \notin Apps \/ AlertInstalled = {}))
        => /\ sent = << >>
           /\ analytics = << >>
           /\ result.logs = <<"event_alert_webhook.missing_installation">>
           /\ result.outcome = "success"
           /\ task.state = "succeeded"
           /\ task.retries = 0

\* C8 amended: for an event whose group and organization resolve, the task
\* makes no delivery, records no analytics and ends normally without a retry
\* both for an app with no Installed installation in the event's
\* organization, where it logs missing_installation, and for an app that does
\* not exist, where the log record is missing_sentry_app.
C8_NoInstallationOrNoAppIsNoOp ==
    (AlertExecuted /\ AlertEventResolves
        /\ (task.sentry_app_id \notin Apps \/ AlertInstalled = {}))
        => /\ sent = << >>
           /\ analytics = << >>
           /\ result.logs = IF task.sentry_app_id \in Apps
                            THEN <<"event_alert_webhook.missing_installation">>
                            ELSE <<"event_alert_webhook.missing_sentry_app">>
           /\ result.outcome = "success"
           /\ task.state = "succeeded"
           /\ task.retries = 0

\* The app's only installation in the event's organization is Pending.
C8_Witness ==
    /\ AlertExecuted
    /\ AlertEventResolves
    /\ task.sentry_app_id \in Apps
    /\ AlertInstalled = {}
    /\ \E i \in InstallIds :
        /\ installations[i] # None
        /\ installations[i].sentry_app_id = task.sentry_app_id
        /\ installations[i].organization_id = 1
        /\ installations[i].status = "pending"
    /\ task.state = "succeeded"
    /\ result.logs = <<"event_alert_webhook.missing_installation">>

\* C9: for an app with more than one Installed installation in the event's
\* organization the task is a no-op: no delivery, no error, no retry, and
\* it ends normally.
C9_SeveralInstallationsIsNoOp ==
    (AlertExecuted /\ AlertEventResolves /\ task.sentry_app_id \in Apps
        /\ Cardinality(AlertInstalled) > 1)
        => /\ sent = << >>
           /\ result.outcome = "success"
           /\ task.state = "succeeded"
           /\ task.retries = 0

\* The task carries UI-component metadata: a non-empty issue_alert payload.
CarriesIssueAlert ==
    /\ task.additional_payload_key = "issue_alert"
    /\ task.additional_payload # << >>

\* C20: an execution of send_alert_event makes at most one analytics record;
\* it makes one exactly when it handed the webhook to the transport, the
\* send returned without an error and the payload carries a non-empty
\* issue_alert entry; it makes none when the send fails, when the task is a
\* no-op or fails before the send, or when no such metadata was attached.
C20_AnalyticsOnlyAfterSuccessfulSendWithMetadata ==
    [][Executes("send_alert_event") =>
        /\ Len(analytics') \in {Len(analytics), Len(analytics) + 1}
        /\ Len(analytics') = Len(analytics) + 1 <=>
                /\ Len(sent') = Len(sent) + 1
                /\ result'.exc = ""
                /\ result'.outcome = "success"
                /\ CarriesIssueAlert
        /\ Len(analytics') = Len(analytics) + 1 =>
                /\ "issue_alert" \in DOMAIN sent'[Len(sent')].data
                /\ analytics'[Len(analytics')].name =
                        "alert_rule_ui_component_webhook.sent"]_vars

\* A task with issue_alert settings failed transiently once, recording
\* nothing, and recorded the signal once when its retry was delivered.
C20_Witness ==
    /\ AlertExecuted
    /\ CarriesIssueAlert
    /\ task.state = "succeeded"
    /\ task.retries = 1
    /\ result.exc = ""
    /\ Len(sent) = 2
    /\ Len(analytics) = 1

(***************************************************************************)
(* Properties of region cache invalidation.                                *)
(***************************************************************************)
CacheExecuted == TaskNamed("clear_region_cache") /\ task.state = "succeeded"

\* The installations of the task's app.
CacheInstalls ==
    {i \in InstallIds :
        /\ installations[i] # None
        /\ installations[i].sentry_app_id = task.sentry_app_id}

\* The app exists and has installations, each in an organization mapped to a
\* region other than the task's.
AllInstallsInOtherRegions ==
    /\ task.sentry_app_id \in Apps
    /\ CacheInstalls # {}
    /\ \A i \in CacheInstalls :
        \E m \in org_mapping :
            /\ m.organization_id = installations[i].organization_id
            /\ m.region_name # task.region_name

\* C10 as stated: when every installation of the app is in an organization
\* mapped to another region, clear_region_cache issues no clear_key call.
C10_OtherRegionsClearNothing ==
    (CacheExecuted /\ AllInstallsInOtherRegions) => cleared = << >>

\* C10 amended: when every installation of the app is in an organization
\* mapped to another region, clear_region_cache issues no clear_key call for
\* an installation; its one call clears the app's application-id key in the
\* task's region.
C10_OtherRegionsClearOnlyTheAppKey ==
    (CacheExecuted /\ AllInstallsInOtherRegions)
        => cleared = <<[key |-> <<"get_by_application_id",
                                  SentryAppGet(task.sentry_app_id).application_id>>,
                        region_name |-> task.region_name]>>

\* Region us is cleared for an app installed only in organizations of eu.
C10_Witness ==
    /\ CacheExecuted
    /\ AllInstallsInOtherRegions
    /\ task.region_name = "us"
    /\ \A m \in org_mapping : m.region_name = "eu"
    /\ Len(cleared) = 1

\* How many clear_key calls were made for key.
ClearedCount(key) ==
    Cardinality({k \in DOMAIN cleared : cleared[k].key = key})

\* The installations of the task's app whose organization is mapped to the
\* task's region.
CacheInstallsInRegion ==
    {i \in CacheInstalls :
        [organization_id |-> installations[i].organization_id,
         region_name |-> task.region_name] \in org_mapping}

\* C11: for an existing app and region R, clear_region_cache makes one
\* clear_key call for the app's application-id key and one for the
\* installation-id key of every installation of the app whose organization
\* is mapped to R, no call for any other installation (organization mapped
\* elsewhere or unmapped) and no other call; every call carries region R;
\* for an app that does not exist it makes no call.
C11_ClearsExactlyTheKeysOfTheRegion ==
    CacheExecuted =>
        IF task.sentry_app_id \notin Apps THEN cleared = << >>
        ELSE /\ \A k \in DOMAIN cleared : cleared[k].region_name = task.region_name
             /\ ClearedCount(<<"get_by_application_id",
                               SentryAppGet(task.sentry_app_id).application_id>>) = 1
             /\ \A i \in InstallIds :
                    ClearedCount(<<"get_installation", i>>) =
                        IF i \in CacheInstallsInRegion THEN 1 ELSE 0
             /\ Len(cleared) = 1 + Cardinality(CacheInstallsInRegion)

\* The app has an installation in the region, whose key is cleared, and one
\* outside it, whose key is not.
C11_Witness ==
    /\ CacheExecuted
    /\ task.sentry_app_id \in Apps
    /\ CacheInstallsInRegion # {}
    /\ CacheInstalls \ CacheInstallsInRegion # {}
    /\ Len(cleared) = 2

(***************************************************************************)
(* Properties of the installation-created notification.                    *)
(***************************************************************************)
\* C16: an execution of installation_webhook for an installation that
\* exists, whatever its status, and a user that exists invokes the
\* just-installed notifier exactly once, for that installation and user with
\* action created; an execution for a missing installation or a missing
\* user invokes it zero times and ends the task normally, without a retry
\* or an error.
C16_NotifierRunsOncePerExecution ==
    [][Executes("installation_webhook") =>
        IF /\ installations[task.installation_id] # None
           /\ get_user(task.user_id) # None
        THEN /\ Len(notified') = Len(notified) + 1
             /\ notified'[Len(notified')] =
                    [install |-> task.installation_id, user |-> task.user_id,
                     action |-> "created"]
             /\ result'.exc = "" =>
                    /\ task'.state = "succeeded"
                    /\ result'.logs = << >>
        ELSE /\ notified' = notified
             /\ task'.state = "succeeded"
             /\ task'.retries = task.retries
             /\ result'.outcome = "success"
             /\ result'.exc = ""]_vars

\* The notifier ran once for a Pending installation, in the task's only
\* execution.
C16_Witness ==
    /\ TaskNamed("installation_webhook")
    /\ task.state = "succeeded"
    /\ task.retries = 0
    /\ installations[task.installation_id] # None
    /\ installations[task.installation_id].status = "pending"
    /\ result.exc = ""
    /\ Len(notified) = 1

(***************************************************************************)
(* Properties of the event frequency condition handlers.                   *)
(***************************************************************************)
\* The handler called handler has been evaluated.
Evaluated(handler) ==
    IF evaluation = None THEN FALSE ELSE evaluation.handler = handler

\* The snuba results of the evaluated job.
EvaluatedResults == GetSnubaResults(evaluation.value)

\* C23: EventFrequencyCountHandler.evaluate_value returns true exactly when
\* the job carries one snuba result and that result is strictly greater than
\* the comparison value; with no result (or no snuba_results key), more than
\* one result, or a result equal to or below the value it returns false.
\* EventFrequencyPercentHandler.evaluate_value returns false unless the job
\* carries exactly two results.
C23_CountIsTrueIffOneResultAboveValue ==
    /\ Evaluated("EventFrequencyCountHandler") =>
            (evaluation.result = TRUE <=>
                IF Len(EvaluatedResults) = 1
                THEN EvaluatedResults[1] > evaluation.comparison.value
                ELSE FALSE)
    /\ Evaluated("EventFrequencyPercentHandler") =>
            (Len(EvaluatedResults) # 2 => evaluation.result = FALSE)

\* A count condition with value 1 was true for the single result 2.
C23_Witness ==
    /\ Evaluated("EventFrequencyCountHandler")
    /\ EvaluatedResults = <<2>>
    /\ evaluation.comparison.value = 1
    /\ evaluation.result = TRUE

====
